---- MODULE Spec2Model ----
(***************************************************************************)
(* Model of package ping (src/ping.go) and of its command (src/cmd/ping.go).*)
(*                                                                         *)
(* A Pinger is driven by one goroutine that executes Run.  Other          *)
(* goroutines may call Finish (the signal goroutine of the command does)   *)
(* and Statistics at any time.  Every statement of Run, updateStatistics,  *)
(* Statistics and Finish that reads or writes shared state is one step, so *)
(* that the interleavings the Go scheduler allows are the behaviours of    *)
(* the model.  Of a datagram the model keeps what Ping reads of it: the    *)
(* header length nibble and whether it carries an Echo Request; of the     *)
(* read buffer, its length.  A run-time panic in Ping unwinds Run through  *)
(* its deferred Finish and ends the process.                               *)
(*                                                                         *)
(* The observers (OnLost, OnRecv, OnFinish) are installed; what an         *)
(* observer sees is kept in the on...Calls counters and in finishSnap.     *)
(* pingLog, recordsDone, recordsAtFinish, finishedAtStart and started are  *)
(* history variables: no step of the program reads them.                   *)
(*                                                                         *)
(* Spec is one Pinger with its callers; SpecRunAlone is Run with no other  *)
(* goroutine; SpecWrap is Run around probe number 2^16; SpecTwo is several *)
(* Pingers with Count = 0; SpecAccumulator is updateStatistics and         *)
(* Statistics called in turn, rtts being a slice of a heap of arrays;      *)
(* SpecCodec is ipv4Payload on a buffer.                                   *)
(***************************************************************************)
EXTENDS Integers, Sequences, FiniteSets, TLC

\* ------------------------------------------------------------- bounds

\* Pinger values that can exist in one process.
NumPingers == 2
\* Goroutines, other than the one in Run, that call Finish.
NumCallers == 1
\* Probes one Run may issue in the model; also the largest Count.
MaxProbes == 2
\* Round trip times a reply can have (time.Duration, in model units).
RttValues == {1, 4}

AllPingers == 1..NumPingers
Callers == (NumPingers + 1)..(NumPingers + NumCallers)
\* The goroutine in Run of Pinger p is task p.
Tasks == AllPingers \cup Callers
\* What Ping can return to Run: an error, or a Packet with its Rtt.
\* Width in bits of time.Duration in the model.  The package computes in
\* int64; the model keeps the wrap-around of the arithmetic at a width that
\* can be explored.
DurationBits == 16
MaxDuration == 2 ^ (DurationBits - 1) - 1
MinDuration == -(2 ^ (DurationBits - 1))
\* A round trip time whose product with half of itself is past MaxDuration.
LargeRtt == 5 * 2 ^ ((DurationBits + 1) \div 2 - 2)
\* The round trip times handed to updateStatistics when it is exercised alone.
RecordRtts == {0, 1, 4, 100, LargeRtt}
\* What a caller writes into the Rtts of a Statistics value it holds.
ClientValues == {7}

\* Longest buffer handed to ipv4Payload when it is exercised alone.
MaxBufLen == 61
\* First bytes of those buffers: version 4 or 6 and every header length.
FirstBytes == {v * 16 + ihl : v \in {4, 6}, ihl \in 0..15}
\* Every other byte of a buffer is its own index, so that a part of the
\* buffer tells where it was taken from.
BufferOf(len, first) ==
    [i \in 1..len |-> IF i = 1 THEN first ELSE i]
Buffers == {BufferOf(len, first) : len \in 0..MaxBufLen, first \in FirstBytes}

\* Header lengths, in 32-bit words, of the datagrams the socket delivers: no
\* options, and the 40 bytes of options of a record-route header.
IhlValues == {5, 15}
\* A datagram by what Ping reads of it: the low nibble of its first byte, and
\* whether its ICMP message is an Echo Request.
Datagrams == [ihl : IhlValues, request : BOOLEAN]
\* ping.go:197: len(rb) = 20 + len(wb), wb an Echo of 8 + 12 bytes.
ReadBufLen == 40
\* ping.go:220
IPv4HeaderLen == 20
\* ping.go:202: rb[8]
TTLIndex == 8
\* ping.go:184: 0xffff
SeqMask == 65535
\* Lost: dial or write failed, or nothing that parses came before the deadline.
Lost == <<>>
Reply(rtt) == <<rtt>>
NoSnap == [none |-> TRUE]

\* ------------------------------------------------------ pure helpers

\* Go's integer division truncates toward zero.
GoDiv(a, b) ==
    IF a >= 0 THEN a \div b ELSE -((-a) \div b)

\* time.Duration(math.Sqrt(float64(v))) for v >= 0: the integer part of the root.
Sqrt(v) ==
    CHOOSE r \in 0..v : r * r <= v /\ (r + 1) * (r + 1) > v

\* ping.go:78-80, n is PacketsRecv after its increment.
NextMinRtt(n, x, min) ==
    IF n = 1 \/ x < min THEN x ELSE min

\* ping.go:82-84
NextMaxRtt(x, max) ==
    IF x > max THEN x ELSE max

NextAvgRttNoDelta(avg, x, n) ==
    avg + GoDiv(x, n)

\* ping.go:89-90
NextAvgRtt(avg, x, n) ==
    avg + GoDiv(x - avg, n)

\* Signed integer arithmetic of DurationBits bits wraps around.
Wrap(v) ==
    ((v - MinDuration) % (2 ^ DurationBits)) + MinDuration

\* ping.go:91-92, delta was computed from the mean before its update.
NextStddevM2(m2, delta, avg, x) ==
    Wrap(m2 + Wrap(delta * (x - avg)))

\* ping.go:94, for m2 >= 0
StdDevOf(m2, n) ==
    Sqrt(GoDiv(m2, n))

\* ping.go:94: math.Sqrt of a negative number is NaN, and the conversion of
\* NaN to an integer type is implementation-dependent: the smallest integer
\* on amd64, 0 on arm64.
StdDevOutcomes(m2, n) ==
    IF GoDiv(m2, n) >= 0 THEN {StdDevOf(m2, n)} ELSE {MinDuration, 0}

\* A slice is an array of the heap and a length; its capacity is the length
\* of the array.  Array 0 is no array: the nil slice.
NilSlice == [arr |-> 0, len |-> 0]

\* The elements of slice s in heap h.
View(h, s) ==
    IF s.arr = 0 THEN <<>> ELSE SubSeq(h[s.arr], 1, s.len)

\* ping.go:76, append(s, x): in place while the capacity allows, else into a
\* new array of twice the capacity (of capacity 1 for the nil slice).
AppendSlice(h, s, x) ==
    IF s.arr # 0 /\ s.len < Len(h[s.arr])
    THEN [heap |-> [h EXCEPT ![s.arr][s.len + 1] = x],
          slice |-> [s EXCEPT !.len = @ + 1]]
    ELSE LET newcap == IF s.arr = 0 THEN 1 ELSE 2 * Len(h[s.arr])
             old == View(h, s)
             a == [i \in 1..newcap |-> IF i <= s.len THEN old[i]
                                       ELSE IF i = s.len + 1 THEN x ELSE 0]
         IN  [heap |-> Append(h, a),
              slice |-> [arr |-> Len(h) + 1, len |-> s.len + 1]]

\* ping.go:219-225 on the length of b, ihl the low nibble of b[0]: the length
\* of the slice returned, or the run-time panic of b[hdrlen:] past len(b).
ipv4Payload(len, ihl) ==
    IF len < IPv4HeaderLen THEN [panic |-> FALSE, len |-> len]
    ELSE IF ihl * 4 > len THEN [panic |-> TRUE, len |-> 0]
    ELSE [panic |-> FALSE, len |-> len - ihl * 4]

\* ping.go:219-225 on the bytes of b: the slice returned, or the run-time panic
\* of b[hdrlen:] when hdrlen is past len(b).  b[0] & 0x0f is b[0] modulo 16
\* and << 2 is times 4.
ipv4PayloadOf(b) ==
    IF Len(b) < IPv4HeaderLen THEN [bytes |-> b]
    ELSE LET hdrlen == (b[1] % 16) * 4
         IN  IF hdrlen > Len(b) THEN [panic |-> TRUE]
             ELSE [bytes |-> SubSeq(b, hdrlen + 1, Len(b))]

\* parseICMPMessage: an error when the buffer is shorter than the header of
\* an ICMP message (type, code, checksum).
ParseFails(len) ==
    len < 4

\* ping.go:181-188: the icmpMessage Ping builds for seq >= 0; seq & 0xffff is
\* seq modulo 2^16.  The Seq of its Echo body is the constant xseq.
icmpMessage(s) ==
    [Type |-> "icmpv4EchoRequest", Code |-> 0, SequenceNum |-> s % (SeqMask + 1),
     Body |-> [Seq |-> 1]]

\* icmpMessage.Marshal, by what encode_echo_request says of it: the sequence
\* number of the message on the wire is the one the message was given.
Marshal(m) ==
    [type |-> m.Type, code |-> m.Code, sequence |-> m.SequenceNum]

\* ping.go:101, a float64: a ratio, or what IEEE division by zero gives.
PacketLoss(sent, recv) ==
    IF sent # 0 THEN [num |-> (sent - recv) * 100, den |-> sent]
    ELSE IF sent - recv = 0 THEN [nan |-> TRUE]
    ELSE [inf |-> IF sent - recv > 0 THEN 1 ELSE -1]

\* ------------------------------------------------------------- state

VARIABLES
    pingers,        \* the Pinger values NewPinger has returned
    Count,          \* Pinger.Count
    PacketsSent,    \* Pinger.PacketsSent
    PacketsRecv,    \* Pinger.PacketsRecv
    minRtt, maxRtt, avgRtt, stdDevRtt, stddevm2,
    rtts,           \* Pinger.rtts
    statsMu,        \* Pinger.statsMu: [writer, readers]
    finished,       \* Pinger.finished
    finishOnce,     \* the package variable finishOnce: [done, m], m the tasks holding its mutex
    runPc,          \* where the goroutine in Run stands
    count,          \* Run's loop variable
    seq,            \* argument of the current call of ping / Ping
    packet,         \* Packet built by the current call of Ping
    pingErr,        \* err returned by the current call of Ping
    rb,             \* len(rb) in the current call of Ping
    delta,          \* updateStatistics' local delta
    finPc,          \* where each task stands in Finish
    finEngine,      \* receiver of each task's call of Finish
    finStat,        \* s, the local of Finish's closure
    statPc,         \* where the goroutine calling Statistics stands
    statEngine,     \* receiver of that call
    snap,           \* the Statistics value that call returned
    onLostCalls, onRecvCalls, onSendCalls, onFinishCalls,
    finishSnap,     \* argument of the last OnFinish call
    pingLog,        \* history: outcome of every Ping call that returned
    recordsDone,    \* history: updateStatistics calls that returned
    recordsAtFinish,\* history: recordsDone when finished was set
    finishedAtStart,\* history: value of finished that Run's guard read
    started,        \* history: iterations of the loop of Run begun
    backing,        \* the arrays of the heap that hold round trip times
    rttsSlice,      \* Pinger 1's rtts as a slice of the heap
    held,           \* the Statistics value a caller holds, its Rtts a slice
    buf,            \* a buffer handed to ipv4Payload
    out             \* what ipv4Payload did with it

engineVars == <<pingers, Count, PacketsSent, PacketsRecv, minRtt, maxRtt,
                avgRtt, stdDevRtt, stddevm2, rtts, statsMu, finished>>
runVars == <<runPc, count, seq, packet, pingErr, rb, delta>>
finVars == <<finishOnce, finPc, finEngine, finStat>>
statVars == <<statPc, statEngine, snap>>
obsVars == <<onLostCalls, onRecvCalls, onSendCalls, onFinishCalls, finishSnap>>
histVars == <<pingLog, recordsDone, recordsAtFinish, finishedAtStart, started>>
memVars == <<backing, rttsSlice, held>>
codecVars == <<buf, out>>
vars == <<engineVars, runVars, finVars, statVars, obsVars, histVars, memVars, codecVars>>

\* A panic that nothing recovers ends the process: no goroutine steps any more.
Alive ==
    \A p \in AllPingers : runPc[p] # "crashed"

\* ------------------------------------------------------------ Statistics

StatisticsStale(p) ==
    [PacketsSent |-> PacketsSent[p],
     PacketsRecv |-> PacketsRecv[p],
     PacketsRecvDuplicates |-> 0,
     PacketLoss |-> PacketLoss(PacketsSent[p], PacketsRecv[p]),
     Rtts |-> IF rtts[p] = <<>> THEN <<>> ELSE SubSeq(rtts[p], 1, Len(rtts[p]) - 1),
     MaxRtt |-> maxRtt[p],
     MinRtt |-> minRtt[p],
     AvgRtt |-> avgRtt[p],
     StdDevRtt |-> stdDevRtt[p]]

\* ping.go:100-115: the value Statistics builds while it holds the read lock.
\* PacketsRecvDuplicates is written nowhere in the package.
Statistics(p) ==
    [PacketsSent |-> PacketsSent[p],
     PacketsRecv |-> PacketsRecv[p],
     PacketsRecvDuplicates |-> 0,
     PacketLoss |-> PacketLoss(PacketsSent[p], PacketsRecv[p]),
     Rtts |-> rtts[p],
     MaxRtt |-> maxRtt[p],
     MinRtt |-> minRtt[p],
     AvgRtt |-> avgRtt[p],
     StdDevRtt |-> stdDevRtt[p]]

RLockIgnoresWriter(p) ==
    TRUE

\* sync.RWMutex: RLock returns only while no writer holds the lock.
CanRLock(p) ==
    ~statsMu[p].writer

\* sync.RWMutex: Lock returns only while nobody holds the lock.
CanLock(p) ==
    ~statsMu[p].writer /\ statsMu[p].readers = 0

\* ------------------------------------------------------------------ Init

\* ping.go:118-129 for every Pinger of the process; the zero value elsewhere.
\* With sent > 0, Pinger 1 was made with Count = -1 and is in Run, asleep
\* after its probe number sent - 1, all of its probes lost so far; pingLog
\* then holds the outcomes from the initial state on.
InitFrom(ps, sent) ==
    /\ pingers = ps
    /\ Count \in [AllPingers -> -1..MaxProbes]
    /\ \A p \in AllPingers \ ps : Count[p] = 0
    /\ sent > 0 => Count[1] = -1
    /\ PacketsSent = [p \in AllPingers |-> IF p = 1 THEN sent ELSE 0]
    /\ PacketsRecv = [p \in AllPingers |-> 0]
    /\ minRtt = [p \in AllPingers |-> 0]
    /\ maxRtt = [p \in AllPingers |-> 0]
    /\ avgRtt = [p \in AllPingers |-> 0]
    /\ stdDevRtt = [p \in AllPingers |-> 0]
    /\ stddevm2 = [p \in AllPingers |-> 0]
    /\ rtts = [p \in AllPingers |-> <<>>]
    /\ statsMu = [p \in AllPingers |-> [writer |-> FALSE, readers |-> 0]]
    /\ finished = [p \in AllPingers |-> FALSE]
    /\ finishOnce = [done |-> FALSE, m |-> {}]
    /\ runPc = [p \in AllPingers |-> IF p = 1 /\ sent > 0 THEN "sleep" ELSE "idle"]
    /\ count = [p \in AllPingers |-> IF p = 1 /\ sent > 0 THEN -1 ELSE 0]
    /\ seq = [p \in AllPingers |-> IF p = 1 /\ sent > 0 THEN sent - 1 ELSE 0]
    /\ packet = [p \in AllPingers |->
                   [Seq |-> IF p = 1 /\ sent > 0 THEN sent - 1 ELSE 0, Rtt |-> 0]]
    /\ pingErr = [p \in AllPingers |-> p = 1 /\ sent > 0]
    /\ rb = [p \in AllPingers |-> 0]
    /\ delta = [p \in AllPingers |-> 0]
    /\ finPc = [t \in Tasks |-> "none"]
    /\ finEngine = [t \in Tasks |-> IF t \in AllPingers THEN t ELSE 1]
    /\ finStat = [t \in Tasks |-> NoSnap]
    /\ statPc = "idle"
    /\ statEngine = 1
    /\ snap = NoSnap
    /\ onLostCalls = [p \in AllPingers |-> IF p = 1 THEN sent ELSE 0]
    /\ onRecvCalls = [p \in AllPingers |-> 0]
    /\ onSendCalls = [p \in AllPingers |-> 0]
    /\ onFinishCalls = [p \in AllPingers |-> 0]
    /\ finishSnap = [p \in AllPingers |-> NoSnap]
    /\ pingLog = [p \in AllPingers |-> <<>>]
    /\ recordsDone = [p \in AllPingers |-> 0]
    /\ recordsAtFinish = [p \in AllPingers |-> 0]
    /\ finishedAtStart = [p \in AllPingers |-> IF p = 1 /\ sent > 0 THEN "no" ELSE "not started"]
    /\ started = [p \in AllPingers |-> IF p = 1 THEN sent ELSE 0]

\* Nobody holds a Statistics value through which rtts can be reached, and
\* ipv4Payload is not exercised on its own.
MemIdle ==
    /\ backing = <<>>
    /\ rttsSlice = NilSlice
    /\ held = NoSnap

CodecIdle ==
    /\ buf = <<>>
    /\ out = NoSnap

\* Before any Run.
InitWith(ps) ==
    InitFrom(ps, 0) /\ MemIdle /\ CodecIdle

\* One Pinger in the process, as in cmd/ping.go.
Init ==
    InitWith({1})

\* ------------------------------------------------------------------- Run

RunStartNoGuard(p) ==
    /\ Alive
    /\ UNCHANGED <<memVars, codecVars>>
    /\ runPc[p] = "idle"
    /\ finishedAtStart' = [finishedAtStart EXCEPT ![p] = IF finished[p] THEN "yes" ELSE "no"]
    /\ runPc' = [runPc EXCEPT ![p] = "loop"]
    /\ count' = [count EXCEPT ![p] = Count[p]]
    /\ UNCHANGED <<engineVars, seq, packet, pingErr, rb, delta, finVars, statVars,
                   obsVars, pingLog, recordsDone, recordsAtFinish, started>>

\* ping.go:132-135: the guard of Run, and the deferred Finish.
RunStart(p) ==
    /\ Alive
    /\ UNCHANGED <<memVars, codecVars>>
    /\ runPc[p] = "idle"
    /\ finishedAtStart' = [finishedAtStart EXCEPT ![p] = IF finished[p] THEN "yes" ELSE "no"]
    /\ IF finished[p]
       THEN /\ runPc' = [runPc EXCEPT ![p] = "returned"]
            /\ UNCHANGED count
       ELSE /\ runPc' = [runPc EXCEPT ![p] = "loop"]
            /\ count' = [count EXCEPT ![p] = Count[p]]
    /\ UNCHANGED <<engineVars, seq, packet, pingErr, rb, delta, finVars, statVars,
                   obsVars, pingLog, recordsDone, recordsAtFinish, started>>

\* ping.go:161-165: the loop test, the budget and the call of ping.  When the
\* loop ends, the deferred Finish starts.  The model follows at most MaxProbes
\* iterations from the initial state.
RunLoop(p) ==
    /\ Alive
    /\ UNCHANGED <<memVars, codecVars>>
    /\ runPc[p] = "loop"
    /\ IF count[p] # 0
       THEN /\ Len(pingLog[p]) < MaxProbes
            /\ count' = [count EXCEPT ![p] = IF count[p] > 0 THEN count[p] - 1 ELSE count[p]]
            /\ seq' = [seq EXCEPT ![p] = PacketsSent[p]]
            /\ runPc' = [runPc EXCEPT ![p] = "ping"]
            /\ started' = [started EXCEPT ![p] = @ + 1]
            /\ UNCHANGED finPc
       ELSE /\ runPc' = [runPc EXCEPT ![p] = "finish"]
            /\ finPc' = [finPc EXCEPT ![p] = "fast"]
            /\ UNCHANGED <<count, seq, started>>
    /\ UNCHANGED <<engineVars, packet, pingErr, rb, delta, finishOnce, finEngine, finStat,
                   statVars, obsVars, pingLog, recordsDone, recordsAtFinish,
                   finishedAtStart>>

\* ping.go:171-197: Ping up to the write of the request; dial or write may
\* fail.  Then the read buffer is made.
PingStart(p) ==
    /\ Alive
    /\ UNCHANGED <<memVars, codecVars>>
    /\ runPc[p] = "ping"
    /\ packet' = [packet EXCEPT ![p] = [Seq |-> seq[p], Rtt |-> 0]]
    /\ \E ok \in BOOLEAN :
        IF ok
        THEN /\ runPc' = [runPc EXCEPT ![p] = "read"]
             /\ rb' = [rb EXCEPT ![p] = ReadBufLen]
             /\ UNCHANGED <<pingErr, pingLog>>
        ELSE /\ runPc' = [runPc EXCEPT ![p] = "handle"]
             /\ pingErr' = [pingErr EXCEPT ![p] = TRUE]
             /\ pingLog' = [pingLog EXCEPT ![p] = Append(@, Lost)]
             /\ UNCHANGED rb
    /\ UNCHANGED <<engineVars, count, seq, delta, finVars, statVars, obsVars,
                   recordsDone, recordsAtFinish, finishedAtStart, started>>

\* What one pass of the read loop of Ping (ping.go:198-214) does with datagram
\* d and a buffer of len bytes: "panic" (rb[8] or b[hdrlen:] out of range),
\* "error" (parseICMPMessage fails), "again" (an Echo Request: continue) or
\* "reply".  A buffer that ipv4Payload leaves alone starts with the IP header,
\* whose first byte is no Echo Request type.
ReadPass(len, d) ==
    LET b == ipv4Payload(len, d.ihl)
    IN  IF len <= TTLIndex \/ b.panic THEN "panic"
        ELSE IF ParseFails(b.len) THEN "error"
        ELSE IF len >= IPv4HeaderLen /\ d.request THEN "again"
        ELSE "reply"

\* ping.go:199-201, 205-207, 216: Ping returns an error: the deadline passed
\* in Read, or the datagram read did not parse.
PingError(p) ==
    /\ Alive
    /\ UNCHANGED <<memVars, codecVars>>
    /\ runPc[p] = "read"
    /\ \/ TRUE
       \/ \E d \in Datagrams : ReadPass(rb[p], d) = "error"
    /\ pingErr' = [pingErr EXCEPT ![p] = TRUE]
    /\ pingLog' = [pingLog EXCEPT ![p] = Append(@, Lost)]
    /\ rb' = [rb EXCEPT ![p] = 0]
    /\ runPc' = [runPc EXCEPT ![p] = "handle"]
    /\ UNCHANGED <<engineVars, count, seq, packet, delta, finVars, statVars, obsVars,
                   recordsDone, recordsAtFinish, finishedAtStart, started>>

\* ping.go:199-210: the datagram read is an Echo Request: rb is now what
\* ipv4Payload returned, and the loop reads again.
PingDiscard(p) ==
    /\ Alive
    /\ UNCHANGED <<memVars, codecVars>>
    /\ runPc[p] = "read"
    /\ \E d \in Datagrams :
        /\ ReadPass(rb[p], d) = "again"
        /\ rb' = [rb EXCEPT ![p] = ipv4Payload(rb[p], d.ihl).len]
    /\ UNCHANGED <<engineVars, runPc, count, seq, packet, pingErr, delta, finVars,
                   statVars, obsVars, histVars>>

\* ping.go:199-216: the datagram read is taken for the reply; Ping returns it
\* with its Rtt.
PingReply(p) ==
    /\ Alive
    /\ UNCHANGED <<memVars, codecVars>>
    /\ runPc[p] = "read"
    /\ \E d \in Datagrams : ReadPass(rb[p], d) = "reply"
    /\ \E x \in RttValues :
        /\ packet' = [packet EXCEPT ![p].Rtt = x]
        /\ pingLog' = [pingLog EXCEPT ![p] = Append(@, Reply(x))]
    /\ pingErr' = [pingErr EXCEPT ![p] = FALSE]
    /\ rb' = [rb EXCEPT ![p] = 0]
    /\ runPc' = [runPc EXCEPT ![p] = "handle"]
    /\ UNCHANGED <<engineVars, count, seq, delta, finVars, statVars, obsVars,
                   recordsDone, recordsAtFinish, finishedAtStart, started>>

\* ping.go:202-203, 135: rb[8] or b[hdrlen:] is out of range: the goroutine
\* panics; Ping and Run unwind, which runs the deferred Finish.
PingPanic(p) ==
    /\ Alive
    /\ UNCHANGED <<memVars, codecVars>>
    /\ runPc[p] = "read"
    /\ \E d \in Datagrams : ReadPass(rb[p], d) = "panic"
    /\ rb' = [rb EXCEPT ![p] = 0]
    /\ runPc' = [runPc EXCEPT ![p] = "panic"]
    /\ finPc' = [finPc EXCEPT ![p] = "fast"]
    /\ UNCHANGED <<engineVars, count, seq, packet, pingErr, delta, finishOnce,
                   finEngine, finStat, statVars, obsVars, histVars>>

\* ping.go:139-149: OnLost on an error, OnRecv otherwise.
Handle(p) ==
    /\ Alive
    /\ UNCHANGED <<memVars, codecVars>>
    /\ runPc[p] = "handle"
    /\ IF pingErr[p]
       THEN /\ onLostCalls' = [onLostCalls EXCEPT ![p] = @ + 1]
            /\ runPc' = [runPc EXCEPT ![p] = "sent"]
            /\ UNCHANGED onRecvCalls
       ELSE /\ onRecvCalls' = [onRecvCalls EXCEPT ![p] = @ + 1]
            /\ runPc' = [runPc EXCEPT ![p] = "upd_lock"]
            /\ UNCHANGED onLostCalls
    /\ UNCHANGED <<engineVars, count, seq, packet, pingErr, rb, delta, finVars, statVars,
                   onSendCalls, onFinishCalls, finishSnap, histVars>>

IncrSentOnReply(p) ==
    /\ Alive
    /\ UNCHANGED <<memVars, codecVars>>
    /\ runPc[p] = "sent"
    /\ PacketsSent' = [PacketsSent EXCEPT ![p] = IF pingErr[p] THEN @ ELSE @ + 1]
    /\ runPc' = [runPc EXCEPT ![p] = "sleep"]
    /\ UNCHANGED <<pingers, Count, PacketsRecv, minRtt, maxRtt, avgRtt, stdDevRtt,
                   stddevm2, rtts, statsMu, finished, count, seq, packet, pingErr,
                   rb, delta, finVars, statVars, obsVars, histVars>>

\* ping.go:159: p.PacketsSent++, outside statsMu.
IncrSent(p) ==
    /\ Alive
    /\ UNCHANGED <<memVars, codecVars>>
    /\ runPc[p] = "sent"
    /\ PacketsSent' = [PacketsSent EXCEPT ![p] = @ + 1]
    /\ runPc' = [runPc EXCEPT ![p] = "sleep"]
    /\ UNCHANGED <<pingers, Count, PacketsRecv, minRtt, maxRtt, avgRtt, stdDevRtt,
                   stddevm2, rtts, statsMu, finished, count, seq, packet, pingErr,
                   rb, delta, finVars, statVars, obsVars, histVars>>

\* ping.go:166: time.Sleep(p.Interval).
Sleep(p) ==
    /\ Alive
    /\ UNCHANGED <<memVars, codecVars>>
    /\ runPc[p] = "sleep"
    /\ runPc' = [runPc EXCEPT ![p] = "loop"]
    /\ UNCHANGED <<engineVars, count, seq, packet, pingErr, rb, delta, finVars, statVars,
                   obsVars, histVars>>

\* ping.go:135, 168: the deferred Finish has returned: Run returns, or, when
\* it was unwinding a panic, the panic ends the process.
RunReturn(p) ==
    /\ Alive
    /\ UNCHANGED <<memVars, codecVars>>
    /\ runPc[p] \in {"finish", "panic"}
    /\ finPc[p] = "returned"
    /\ runPc' = [runPc EXCEPT ![p] = IF runPc[p] = "panic" THEN "crashed" ELSE "returned"]
    /\ UNCHANGED <<engineVars, count, seq, packet, pingErr, rb, delta, finVars, statVars,
                   obsVars, histVars>>

\* ------------------------------------------------------ updateStatistics

\* What a step of updateStatistics leaves alone, besides the statistics fields.
UpdFrame ==
    UNCHANGED <<pingers, Count, PacketsSent, finished, count, seq, packet, pingErr,
                rb, finVars, statVars, obsVars, pingLog, recordsAtFinish,
                finishedAtStart, started>>

\* ping.go:72: p.statsMu.Lock()
UpdLock(p) ==
    /\ Alive
    /\ UNCHANGED <<memVars, codecVars>>
    /\ runPc[p] = "upd_lock"
    /\ CanLock(p)
    /\ statsMu' = [statsMu EXCEPT ![p].writer = TRUE]
    /\ runPc' = [runPc EXCEPT ![p] = "upd_recv"]
    /\ UNCHANGED <<PacketsRecv, minRtt, maxRtt, avgRtt, stdDevRtt, stddevm2, rtts,
                   delta, recordsDone>>
    /\ UpdFrame

\* ping.go:75
UpdRecv(p) ==
    /\ Alive
    /\ UNCHANGED <<memVars, codecVars>>
    /\ runPc[p] = "upd_recv"
    /\ PacketsRecv' = [PacketsRecv EXCEPT ![p] = @ + 1]
    /\ runPc' = [runPc EXCEPT ![p] = "upd_rtts"]
    /\ UNCHANGED <<statsMu, minRtt, maxRtt, avgRtt, stdDevRtt, stddevm2, rtts,
                   delta, recordsDone>>
    /\ UpdFrame

UpdRttsPrepend(p) ==
    /\ Alive
    /\ UNCHANGED <<memVars, codecVars>>
    /\ runPc[p] = "upd_rtts"
    /\ rtts' = [rtts EXCEPT ![p] = <<packet[p].Rtt>> \o @]
    /\ runPc' = [runPc EXCEPT ![p] = "upd_min"]
    /\ UNCHANGED <<statsMu, PacketsRecv, minRtt, maxRtt, avgRtt, stdDevRtt, stddevm2,
                   delta, recordsDone>>
    /\ UpdFrame

\* ping.go:76
UpdRtts(p) ==
    /\ Alive
    /\ UNCHANGED <<memVars, codecVars>>
    /\ runPc[p] = "upd_rtts"
    /\ rtts' = [rtts EXCEPT ![p] = Append(@, packet[p].Rtt)]
    /\ runPc' = [runPc EXCEPT ![p] = "upd_min"]
    /\ UNCHANGED <<statsMu, PacketsRecv, minRtt, maxRtt, avgRtt, stdDevRtt, stddevm2,
                   delta, recordsDone>>
    /\ UpdFrame

\* ping.go:78-84
UpdMinMax(p) ==
    /\ Alive
    /\ UNCHANGED <<memVars, codecVars>>
    /\ runPc[p] = "upd_min"
    /\ minRtt' = [minRtt EXCEPT ![p] = NextMinRtt(PacketsRecv[p], packet[p].Rtt, @)]
    /\ maxRtt' = [maxRtt EXCEPT ![p] = NextMaxRtt(packet[p].Rtt, @)]
    /\ runPc' = [runPc EXCEPT ![p] = "upd_avg"]
    /\ UNCHANGED <<statsMu, PacketsRecv, avgRtt, stdDevRtt, stddevm2, rtts, delta,
                   recordsDone>>
    /\ UpdFrame

\* ping.go:86-90
UpdAvg(p) ==
    /\ Alive
    /\ UNCHANGED <<memVars, codecVars>>
    /\ runPc[p] = "upd_avg"
    /\ delta' = [delta EXCEPT ![p] = packet[p].Rtt - avgRtt[p]]
    /\ avgRtt' = [avgRtt EXCEPT ![p] = NextAvgRtt(@, packet[p].Rtt, PacketsRecv[p])]
    /\ runPc' = [runPc EXCEPT ![p] = "upd_m2"]
    /\ UNCHANGED <<statsMu, PacketsRecv, minRtt, maxRtt, stdDevRtt, stddevm2, rtts,
                   recordsDone>>
    /\ UpdFrame

\* ping.go:91-94
UpdM2(p) ==
    /\ Alive
    /\ UNCHANGED <<memVars, codecVars>>
    /\ runPc[p] = "upd_m2"
    /\ LET m2 == NextStddevM2(stddevm2[p], delta[p], avgRtt[p], packet[p].Rtt)
       IN  /\ stddevm2' = [stddevm2 EXCEPT ![p] = m2]
           /\ \E sd \in StdDevOutcomes(m2, PacketsRecv[p]) :
                  stdDevRtt' = [stdDevRtt EXCEPT ![p] = sd]
    /\ runPc' = [runPc EXCEPT ![p] = "upd_unlock"]
    /\ UNCHANGED <<statsMu, PacketsRecv, minRtt, maxRtt, avgRtt, rtts, delta,
                   recordsDone>>
    /\ UpdFrame

\* ping.go:73, 95: the deferred Unlock; updateStatistics returns to ping.
UpdUnlock(p) ==
    /\ Alive
    /\ UNCHANGED <<memVars, codecVars>>
    /\ runPc[p] = "upd_unlock"
    /\ statsMu' = [statsMu EXCEPT ![p].writer = FALSE]
    /\ recordsDone' = [recordsDone EXCEPT ![p] = @ + 1]
    /\ runPc' = [runPc EXCEPT ![p] = "sent"]
    /\ UNCHANGED <<PacketsRecv, minRtt, maxRtt, avgRtt, stdDevRtt, stddevm2, rtts,
                   delta>>
    /\ UpdFrame

\* ---------------------------------------------------------------- Finish

\* What a step of Finish leaves alone, besides finPc.
FinFrame ==
    UNCHANGED <<pingers, Count, PacketsSent, PacketsRecv, minRtt, maxRtt, avgRtt,
                stdDevRtt, stddevm2, rtts, runVars, statVars, onLostCalls,
                onRecvCalls, onSendCalls, pingLog, recordsDone, finishedAtStart,
                started>>

\* cmd/ping.go:37-39: a goroutine other than the one in Run calls Finish.
\* These goroutines differ in nothing: they are numbered in the order of
\* their calls.
FinishCall(c) ==
    /\ Alive
    /\ UNCHANGED <<memVars, codecVars>>
    /\ finPc[c] = "none"
    /\ \A b \in Callers : b < c => finPc[b] # "none"
    /\ \E p \in pingers : finEngine' = [finEngine EXCEPT ![c] = p]
    /\ finPc' = [finPc EXCEPT ![c] = "fast"]
    /\ UNCHANGED <<finishOnce, finStat, statsMu, finished, onFinishCalls, finishSnap,
                   recordsAtFinish>>
    /\ FinFrame

\* ping.go:230, sync.Once.Do: return at once when the Once is done.
OnceFast(t) ==
    /\ Alive
    /\ UNCHANGED <<memVars, codecVars>>
    /\ finPc[t] = "fast"
    /\ finPc' = [finPc EXCEPT ![t] = IF finishOnce.done THEN "returned" ELSE "slow"]
    /\ UNCHANGED <<finishOnce, finEngine, finStat, statsMu, finished, onFinishCalls,
                   finishSnap, recordsAtFinish>>
    /\ FinFrame

OnceNoMutex(t) ==
    /\ Alive
    /\ UNCHANGED <<memVars, codecVars>>
    /\ finPc[t] = "slow"
    /\ finishOnce' = [finishOnce EXCEPT !.m = @ \cup {t}]
    /\ finPc' = [finPc EXCEPT ![t] = IF finishOnce.done THEN "unlock" ELSE "flag"]
    /\ UNCHANGED <<finEngine, finStat, statsMu, finished, onFinishCalls, finishSnap,
                   recordsAtFinish>>
    /\ FinFrame

\* ping.go:230, sync.Once.Do: take the mutex of the Once, then test done again.
OnceLock(t) ==
    /\ Alive
    /\ UNCHANGED <<memVars, codecVars>>
    /\ finPc[t] = "slow"
    /\ finishOnce.m = {}
    /\ finishOnce' = [finishOnce EXCEPT !.m = {t}]
    /\ finPc' = [finPc EXCEPT ![t] = IF finishOnce.done THEN "unlock" ELSE "flag"]
    /\ UNCHANGED <<finEngine, finStat, statsMu, finished, onFinishCalls, finishSnap,
                   recordsAtFinish>>
    /\ FinFrame

\* ping.go:231: p.finished = true
FinishFlag(t) ==
    /\ Alive
    /\ UNCHANGED <<memVars, codecVars>>
    /\ finPc[t] = "flag"
    /\ finished' = [finished EXCEPT ![finEngine[t]] = TRUE]
    /\ recordsAtFinish' = [recordsAtFinish EXCEPT ![finEngine[t]] = recordsDone[finEngine[t]]]
    /\ finPc' = [finPc EXCEPT ![t] = "rlock"]
    /\ UNCHANGED <<finishOnce, finEngine, finStat, statsMu, onFinishCalls, finishSnap>>
    /\ FinFrame

\* ping.go:232-234, 98-115: the handler is set; Statistics takes the read lock
\* and copies the fields into s.
FinishRLock(t) ==
    /\ Alive
    /\ UNCHANGED <<memVars, codecVars>>
    /\ finPc[t] = "rlock"
    /\ CanRLock(finEngine[t])
    /\ statsMu' = [statsMu EXCEPT ![finEngine[t]].readers = @ + 1]
    /\ finStat' = [finStat EXCEPT ![t] = Statistics(finEngine[t])]
    /\ finPc' = [finPc EXCEPT ![t] = "runlock"]
    /\ UNCHANGED <<finishOnce, finEngine, finished, onFinishCalls, finishSnap,
                   recordsAtFinish>>
    /\ FinFrame

\* ping.go:99, 115: the deferred RUnlock; Statistics returns s to Finish.
FinishRUnlock(t) ==
    /\ Alive
    /\ UNCHANGED <<memVars, codecVars>>
    /\ finPc[t] = "runlock"
    /\ statsMu' = [statsMu EXCEPT ![finEngine[t]].readers = @ - 1]
    /\ finPc' = [finPc EXCEPT ![t] = "call"]
    /\ UNCHANGED <<finishOnce, finEngine, finStat, finished, onFinishCalls, finishSnap,
                   recordsAtFinish>>
    /\ FinFrame

\* ping.go:235: handler(s)
FinishHandler(t) ==
    /\ Alive
    /\ UNCHANGED <<memVars, codecVars>>
    /\ finPc[t] = "call"
    /\ onFinishCalls' = [onFinishCalls EXCEPT ![finEngine[t]] = @ + 1]
    /\ finishSnap' = [finishSnap EXCEPT ![finEngine[t]] = finStat[t]]
    /\ finStat' = [finStat EXCEPT ![t] = NoSnap]
    /\ finPc' = [finPc EXCEPT ![t] = "done"]
    /\ UNCHANGED <<finishOnce, finEngine, statsMu, finished, recordsAtFinish>>
    /\ FinFrame

\* ping.go:237, sync.Once.Do: the function has returned, the Once is done.
OnceDone(t) ==
    /\ Alive
    /\ UNCHANGED <<memVars, codecVars>>
    /\ finPc[t] = "done"
    /\ finishOnce' = [finishOnce EXCEPT !.done = TRUE]
    /\ finPc' = [finPc EXCEPT ![t] = "unlock"]
    /\ UNCHANGED <<finEngine, finStat, statsMu, finished, onFinishCalls, finishSnap,
                   recordsAtFinish>>
    /\ FinFrame

\* ping.go:237-238, sync.Once.Do: release the mutex; Finish returns.
OnceUnlock(t) ==
    /\ Alive
    /\ UNCHANGED <<memVars, codecVars>>
    /\ finPc[t] = "unlock"
    /\ finishOnce' = [finishOnce EXCEPT !.m = @ \ {t}]
    /\ finPc' = [finPc EXCEPT ![t] = "returned"]
    /\ UNCHANGED <<finEngine, finStat, statsMu, finished, onFinishCalls, finishSnap,
                   recordsAtFinish>>
    /\ FinFrame

\* ------------------------------------------- Statistics, called from outside

StatFrame ==
    UNCHANGED <<pingers, Count, PacketsSent, PacketsRecv, minRtt, maxRtt, avgRtt,
                stdDevRtt, stddevm2, rtts, finished, runVars, finVars, obsVars,
                histVars>>

\* ping.go:97-115: a goroutine calls Statistics; with the read lock it copies
\* the fields into s.  No field but PacketsSent can change while the lock is
\* held and PacketsSent is read once, so lock and copy are one step.
StatRLock ==
    /\ Alive
    /\ UNCHANGED <<memVars, codecVars>>
    /\ statPc = "idle"
    /\ \E p \in pingers :
        /\ CanRLock(p)
        /\ statEngine' = p
        /\ statsMu' = [statsMu EXCEPT ![p].readers = @ + 1]
        /\ snap' = Statistics(p)
    /\ statPc' = "runlock"
    /\ StatFrame

\* ping.go:99, 115: the deferred RUnlock; the caller has used s when it calls again.
StatRUnlock ==
    /\ Alive
    /\ UNCHANGED <<memVars, codecVars>>
    /\ statPc = "runlock"
    /\ statsMu' = [statsMu EXCEPT ![statEngine].readers = @ - 1]
    /\ snap' = NoSnap
    /\ statPc' = "idle"
    /\ UNCHANGED statEngine
    /\ StatFrame

\* ------------------------------------------------------------ specification

Next ==
    \/ \E p \in pingers : RunStart(p)
    \/ \E p \in pingers : RunLoop(p)
    \/ \E p \in pingers : PingStart(p)
    \/ \E p \in pingers : PingError(p)
    \/ \E p \in pingers : PingDiscard(p)
    \/ \E p \in pingers : PingReply(p)
    \/ \E p \in pingers : PingPanic(p)
    \/ \E p \in pingers : Handle(p)
    \/ \E p \in pingers : UpdLock(p)
    \/ \E p \in pingers : UpdRecv(p)
    \/ \E p \in pingers : UpdRtts(p)
    \/ \E p \in pingers : UpdMinMax(p)
    \/ \E p \in pingers : UpdAvg(p)
    \/ \E p \in pingers : UpdM2(p)
    \/ \E p \in pingers : UpdUnlock(p)
    \/ \E p \in pingers : IncrSent(p)
    \/ \E p \in pingers : Sleep(p)
    \/ \E p \in pingers : RunReturn(p)
    \/ \E c \in Callers : FinishCall(c)
    \/ \E t \in pingers \cup Callers : OnceFast(t)
    \/ \E t \in pingers \cup Callers : OnceLock(t)
    \/ \E t \in pingers \cup Callers : FinishFlag(t)
    \/ \E t \in pingers \cup Callers : FinishRLock(t)
    \/ \E t \in pingers \cup Callers : FinishRUnlock(t)
    \/ \E t \in pingers \cup Callers : FinishHandler(t)
    \/ \E t \in pingers \cup Callers : OnceDone(t)
    \/ \E t \in pingers \cup Callers : OnceUnlock(t)
    \/ StatRLock
    \/ StatRUnlock

Spec == Init /\ [][Next]_vars

\* Run alone: no other goroutine calls Finish or Statistics.
RunAloneNext ==
    \/ \E p \in pingers : RunStart(p)
    \/ \E p \in pingers : RunLoop(p)
    \/ \E p \in pingers : PingStart(p)
    \/ \E p \in pingers : PingError(p)
    \/ \E p \in pingers : PingDiscard(p)
    \/ \E p \in pingers : PingReply(p)
    \/ \E p \in pingers : PingPanic(p)
    \/ \E p \in pingers : Handle(p)
    \/ \E p \in pingers : UpdLock(p)
    \/ \E p \in pingers : UpdRecv(p)
    \/ \E p \in pingers : UpdRtts(p)
    \/ \E p \in pingers : UpdMinMax(p)
    \/ \E p \in pingers : UpdAvg(p)
    \/ \E p \in pingers : UpdM2(p)
    \/ \E p \in pingers : UpdUnlock(p)
    \/ \E p \in pingers : IncrSent(p)
    \/ \E p \in pingers : Sleep(p)
    \/ \E p \in pingers : RunReturn(p)
    \/ \E p \in pingers : OnceFast(p)
    \/ \E p \in pingers : OnceLock(p)
    \/ \E p \in pingers : FinishFlag(p)
    \/ \E p \in pingers : FinishRLock(p)
    \/ \E p \in pingers : FinishRUnlock(p)
    \/ \E p \in pingers : FinishHandler(p)
    \/ \E p \in pingers : OnceDone(p)
    \/ \E p \in pingers : OnceUnlock(p)

\* The goroutine in Run is scheduled as long as it can take a step: Ping returns
\* by its deadline (ping.go:178), Sleep ends, and no lock is held by anyone else.
SpecRunAlone == Init /\ [][RunAloneNext]_vars /\ WF_vars(RunAloneNext)

\* Run alone, from its loop, about to issue the probe whose number is the
\* largest 16-bit value.
InitWrap ==
    InitFrom({1}, SeqMask) /\ MemIdle /\ CodecIdle

WrapNext ==
    \/ \E p \in pingers : RunLoop(p)
    \/ \E p \in pingers : PingStart(p)
    \/ \E p \in pingers : PingError(p)
    \/ \E p \in pingers : PingDiscard(p)
    \/ \E p \in pingers : PingReply(p)
    \/ \E p \in pingers : PingPanic(p)
    \/ \E p \in pingers : Handle(p)
    \/ \E p \in pingers : UpdLock(p)
    \/ \E p \in pingers : UpdRecv(p)
    \/ \E p \in pingers : UpdRtts(p)
    \/ \E p \in pingers : UpdMinMax(p)
    \/ \E p \in pingers : UpdAvg(p)
    \/ \E p \in pingers : UpdM2(p)
    \/ \E p \in pingers : UpdUnlock(p)
    \/ \E p \in pingers : IncrSent(p)
    \/ \E p \in pingers : Sleep(p)
    \/ \E p \in pingers : RunReturn(p)
    \/ \E p \in pingers : OnceFast(p)
    \/ \E p \in pingers : OnceLock(p)
    \/ \E p \in pingers : FinishFlag(p)
    \/ \E p \in pingers : FinishRLock(p)
    \/ \E p \in pingers : FinishRUnlock(p)
    \/ \E p \in pingers : FinishHandler(p)
    \/ \E p \in pingers : OnceDone(p)
    \/ \E p \in pingers : OnceUnlock(p)

SpecWrap == InitWrap /\ [][WrapNext]_vars

\* ------------------------------------ the accumulator and its snapshots

\* What the steps below leave alone.
AccFrame ==
    UNCHANGED <<pingers, Count, PacketsSent, statsMu, finished, runVars, finVars,
                statVars, obsVars, recordsAtFinish, finishedAtStart, started,
                codecVars>>

\* ping.go:71-95: one call of updateStatistics on Pinger 1, from Lock to
\* Unlock, for a Packet whose Rtt is x; rtts is a slice of the heap.
Record(x) ==
    /\ Len(pingLog[1]) < MaxProbes
    /\ LET n == PacketsRecv[1] + 1
           grown == AppendSlice(backing, rttsSlice, x)
           avg == NextAvgRtt(avgRtt[1], x, n)
           m2 == NextStddevM2(stddevm2[1], x - avgRtt[1], avg, x)
       IN  /\ PacketsRecv' = [PacketsRecv EXCEPT ![1] = n]
           /\ backing' = grown.heap
           /\ rttsSlice' = grown.slice
           /\ rtts' = [rtts EXCEPT ![1] = View(grown.heap, grown.slice)]
           /\ minRtt' = [minRtt EXCEPT ![1] = NextMinRtt(n, x, @)]
           /\ maxRtt' = [maxRtt EXCEPT ![1] = NextMaxRtt(x, @)]
           /\ avgRtt' = [avgRtt EXCEPT ![1] = avg]
           /\ stddevm2' = [stddevm2 EXCEPT ![1] = m2]
           /\ \E sd \in StdDevOutcomes(m2, n) :
                  stdDevRtt' = [stdDevRtt EXCEPT ![1] = sd]
    /\ pingLog' = [pingLog EXCEPT ![1] = Append(@, Reply(x))]
    /\ recordsDone' = [recordsDone EXCEPT ![1] = @ + 1]
    /\ UNCHANGED held
    /\ AccFrame

\* ping.go:97-116: one call of Statistics on Pinger 1; the caller keeps the
\* value.  Rtts: p.rtts copies the slice, not the array it points into.
TakeSnapshot ==
    /\ held' = [Statistics(1) EXCEPT !.Rtts = rttsSlice]
    /\ held' # held
    /\ UNCHANGED <<PacketsRecv, minRtt, maxRtt, avgRtt, stdDevRtt, stddevm2, rtts,
                   backing, rttsSlice, pingLog, recordsDone>>
    /\ AccFrame

\* The caller assigns to an element of the Rtts of the value it holds: a
\* write into the array that ping.go:107 handed out.
ClientWrite ==
    /\ held # NoSnap
    /\ \E i \in 1..held.Rtts.len, v \in ClientValues :
        /\ backing[held.Rtts.arr][i] # v
        /\ backing' = [backing EXCEPT ![held.Rtts.arr][i] = v]
    /\ rtts' = [rtts EXCEPT ![1] = View(backing', rttsSlice)]
    /\ UNCHANGED <<PacketsRecv, minRtt, maxRtt, avgRtt, stdDevRtt, stddevm2,
                   rttsSlice, held, pingLog, recordsDone>>
    /\ AccFrame

AccNext ==
    \/ \E x \in RecordRtts : Record(x)
    \/ TakeSnapshot
    \/ ClientWrite

\* updateStatistics and Statistics called one after the other on one Pinger.
SpecAccumulator == InitWith({1}) /\ [][AccNext]_vars

\* ------------------------------------------------- two Pingers

\* Every Pinger of the model has been made, each with Count = 0: its Run
\* goes straight to the deferred Finish.
InitTwo ==
    /\ InitWith(AllPingers)
    /\ Count = [p \in AllPingers |-> 0]

TwoNext ==
    \/ \E p \in pingers : RunStart(p)
    \/ \E p \in pingers : RunLoop(p)
    \/ \E p \in pingers : RunReturn(p)
    \/ \E c \in Callers : FinishCall(c)
    \/ \E t \in pingers \cup Callers : OnceFast(t)
    \/ \E t \in pingers \cup Callers : OnceLock(t)
    \/ \E t \in pingers \cup Callers : FinishFlag(t)
    \/ \E t \in pingers \cup Callers : FinishRLock(t)
    \/ \E t \in pingers \cup Callers : FinishRUnlock(t)
    \/ \E t \in pingers \cup Callers : FinishHandler(t)
    \/ \E t \in pingers \cup Callers : OnceDone(t)
    \/ \E t \in pingers \cup Callers : OnceUnlock(t)

\* Several Pingers in one process share the package variable finishOnce.
SpecTwo == InitTwo /\ [][TwoNext]_vars

\* ------------------------------------------------- ipv4Payload alone

\* Some buffer is about to be handed to ipv4Payload.
InitCodec ==
    /\ InitFrom({1}, 0)
    /\ MemIdle
    /\ buf \in Buffers
    /\ out = NoSnap

\* ping.go:203, 219-225: one call of ipv4Payload.
Strip ==
    /\ out = NoSnap
    /\ out' = ipv4PayloadOf(buf)
    /\ UNCHANGED <<engineVars, runVars, finVars, statVars, obsVars, histVars, memVars, buf>>

CodecNext ==
    Strip

SpecCodec == InitCodec /\ [][CodecNext]_vars

\* ------------------------------------------------ reference definitions

\* No probe attempt of Pinger p is in progress.
Between(p) ==
    runPc[p] \in {"idle", "loop", "sleep", "finish", "returned", "panic", "crashed"}

\* The Rtts of the replies of a log, in the order of the log.
RECURSIVE Replies(_)
Replies(log) ==
    IF log = <<>> THEN <<>>
    ELSE IF Len(Head(log)) = 1 THEN <<Head(log)[1]>> \o Replies(Tail(log))
    ELSE Replies(Tail(log))

SmallestOf(xs) ==
    IF xs = <<>> THEN 0
    ELSE CHOOSE m \in {xs[i] : i \in 1..Len(xs)} : \A i \in 1..Len(xs) : m <= xs[i]

LargestOf(xs) ==
    IF xs = <<>> THEN 0
    ELSE CHOOSE m \in {xs[i] : i \in 1..Len(xs)} : \A i \in 1..Len(xs) : m >= xs[i]

\* Welford's method over xs in integer arithmetic that truncates toward zero:
\* delta = x - mean; mean += delta / n; M2 += delta * (x - mean).
RECURSIVE WelfordOf(_)
WelfordOf(xs) ==
    IF xs = <<>> THEN [n |-> 0, mean |-> 0, m2 |-> 0]
    ELSE LET w == WelfordOf(SubSeq(xs, 1, Len(xs) - 1))
             x == xs[Len(xs)]
             n == w.n + 1
             d == x - w.mean
             q == IF d >= 0 THEN d \div n ELSE -((-d) \div n)
             mean == w.mean + q
         IN  [n |-> n, mean |-> mean, m2 |-> w.m2 + d * (x - mean)]

RootOf(v) ==
    CHOOSE r \in 0..v : r * r <= v /\ (r + 1) * (r + 1) > v

RECURSIVE SumOf(_)
SumOf(xs) ==
    IF xs = <<>> THEN 0 ELSE Head(xs) + SumOf(Tail(xs))

\* n^2 times the population variance of xs by the two-pass formula:
\* n * sum of the squares - square of the sum.
ScaledVariance(xs) ==
    Len(xs) * SumOf([i \in 1..Len(xs) |-> xs[i] * xs[i]]) - SumOf(xs) * SumOf(xs)

\* What the caller sees in the Statistics value it holds.
HeldView ==
    IF held = NoSnap THEN NoSnap ELSE [held EXCEPT !.Rtts = View(backing, held.Rtts)]

\* The bytes of b after its first k.
Following(b, k) ==
    [i \in 1..(IF k >= Len(b) THEN 0 ELSE Len(b) - k) |-> b[i + k]]

\* s is the end of b.
IsSuffix(s, b) ==
    /\ Len(s) <= Len(b)
    /\ \A i \in 1..Len(s) : s[i] = b[Len(b) - Len(s) + i]

\* A Statistics value s is that of one sequence of samples: its own Rtts.
Consistent(s) ==
    LET w == WelfordOf(s.Rtts)
    IN  /\ Len(s.Rtts) = s.PacketsRecv
        /\ s.MinRtt = SmallestOf(s.Rtts)
        /\ s.MaxRtt = LargestOf(s.Rtts)
        /\ s.AvgRtt = w.mean
        /\ s.StdDevRtt = IF s.Rtts = <<>> THEN 0 ELSE RootOf(w.m2 \div Len(s.Rtts))

\* The Statistics values some goroutine holds or an observer was handed.
Snapshots ==
    {snap} \cup {finishSnap[p] : p \in pingers} \cup {finStat[t] : t \in Tasks}

\* ---------------------------------------------------------------- claims

Finishers(p) ==
    {t \in Tasks : finEngine[t] = p /\ finPc[t] # "none"}

InClosure(p) ==
    {t \in Finishers(p) : finPc[t] \in {"rlock", "runlock", "call", "done"}}

\* C1: with one Pinger in the process, however many tasks call Finish and
\* however their steps interleave, the closure of Finish runs at most once (the
\* flag is set once, OnFinish is called once), and as soon as any call of Finish
\* has returned the flag is set and OnFinish has been called exactly once.
C1_FinishExactlyOnce ==
    \A p \in pingers :
        /\ onFinishCalls[p] <= 1
        /\ Cardinality({t \in Finishers(p) : finPc[t] \in {"flag", "rlock", "runlock", "call"}})
               + onFinishCalls[p] <= 1
        /\ \A t \in InClosure(p) : finished[p]
        /\ \A t \in Finishers(p) :
               finPc[t] = "returned" => finished[p] /\ onFinishCalls[p] = 1

\* The deferred Finish of Run and the Finish of another goroutine have both returned.
C1_Witness ==
    /\ finPc[1] = "returned"
    /\ \E c \in Callers : finPc[c] = "returned" /\ finEngine[c] = 1
    /\ onFinishCalls[1] = 1

\* C2: once a call of Finish on a Pinger has returned, the loop of Run starts
\* no further iteration: no new probe is issued (the probe in flight may end).
C2_NoProbeAfterFinish ==
    [][\A p \in pingers :
           (\E t \in Tasks : finEngine[t] = p /\ finPc[t] = "returned")
               => ~(runPc[p] = "loop" /\ runPc'[p] = "ping")]_vars

\* C3: between two iterations of the loop, after N probe attempts of which R
\* returned a reply, Statistics reports PacketsSent = N, PacketsRecv = R and as
\* Rtts the R round trip times in the order the replies arrived.
C3_CountsAndOrder ==
    \A p \in pingers :
        Between(p) =>
            LET s == Statistics(p)
                replies == Replies(pingLog[p])
            IN  /\ s.PacketsSent = Len(pingLog[p])
                /\ s.PacketsRecv = Len(replies)
                /\ s.Rtts = replies

\* A goroutine holds a snapshot taken between iterations, after two different replies.
C3_Witness ==
    /\ statPc = "runlock"
    /\ Between(1)
    /\ pingLog[1] = <<Reply(4), Reply(1)>>
    /\ snap = Statistics(1)
    /\ snap.Rtts = <<4, 1>>

\* C4: every snapshot, whenever it is taken, has PacketsRecv <= PacketsSent.
C4_RecvAtMostSent ==
    \A s \in Snapshots : s # NoSnap => s.PacketsRecv <= s.PacketsSent

\* C5: no snapshot is torn: in every Statistics value, whenever it was taken,
\* Rtts has PacketsRecv entries and MinRtt, MaxRtt, AvgRtt and StdDevRtt are
\* those of exactly these entries.
C5_NoTornSnapshot ==
    \A s \in Snapshots : s # NoSnap => Consistent(s)

\* A snapshot is built while updateStatistics waits for the lock.
C5_Witness ==
    /\ statPc = "runlock"
    /\ runPc[statEngine] = "upd_lock"
    /\ snap.PacketsRecv = 1
    /\ packet[statEngine].Rtt # snap.Rtts[1]

\* C6: with Count = N >= 0 and no other goroutine, Run issues exactly N
\* probes, whatever happens in them, then returns after OnFinish was called
\* once; with Count < 0 Run never leaves its loop.
C6_BudgetDecidesTheEnd ==
    /\ \A p \in AllPingers :
           (p \in pingers /\ Count[p] >= 0)
               ~> (/\ runPc[p] = "returned"
                   /\ started[p] = Count[p]
                   /\ PacketsSent[p] = Count[p]
                   /\ onFinishCalls[p] = 1)
    /\ [](\A p \in pingers :
             /\ Count[p] >= 0 => started[p] <= Count[p]
             /\ Count[p] < 0 => runPc[p] \notin {"finish", "returned"})

\* C7: every iteration of the loop calls exactly one of OnLost and OnRecv:
\* OnRecv and updateStatistics once for each reply, OnLost once for each
\* failure, which leaves PacketsRecv, rtts, minRtt, maxRtt, avgRtt and stddevm2
\* as they were; and each iteration adds one to PacketsSent.
C7_OneObserverPerProbe ==
    \A p \in pingers :
        LET log == pingLog[p]
            pending == IF runPc[p] = "handle" THEN 1 ELSE 0
            replies == Replies(log)
            w == WelfordOf(replies)
        IN  /\ onRecvCalls[p] + onLostCalls[p] = Len(log) - pending
            /\ onRecvCalls[p] = Len(replies) - (IF pingErr[p] THEN 0 ELSE pending)
            /\ Between(p) =>
                   /\ onRecvCalls[p] + onLostCalls[p] = started[p]
                   /\ PacketsSent[p] = started[p]
                   /\ recordsDone[p] = Len(replies)
                   /\ PacketsRecv[p] = Len(replies)
                   /\ rtts[p] = replies
                   /\ minRtt[p] = SmallestOf(replies)
                   /\ maxRtt[p] = LargestOf(replies)
                   /\ avgRtt[p] = w.mean
                   /\ stddevm2[p] = w.m2

\* C8: Run on a Pinger whose finished flag is already set returns at once: no
\* probe, no counter changed, no OnLost or OnRecv, no second OnFinish.
C8_RunAfterFinishIsNoOp ==
    \A p \in pingers :
        finishedAtStart[p] = "yes" =>
            /\ runPc[p] = "returned"
            /\ finPc[p] = "none"
            /\ pingLog[p] = <<>>
            /\ PacketsSent[p] = 0
            /\ PacketsRecv[p] = 0
            /\ onLostCalls[p] = 0
            /\ onRecvCalls[p] = 0
            /\ onFinishCalls[p] <= 1

\* Finish returned before Run was called on a Pinger with budget.
C8_Witness ==
    /\ finishedAtStart[1] = "yes"
    /\ Count[1] # 0
    /\ onFinishCalls[1] = 1
    /\ \E c \in Callers : finPc[c] = "returned"

\* C9: the snapshot handed to OnFinish contains every reply whose
\* updateStatistics call had returned when Finish set the finished flag.
C9_FinalSnapshotKeepsRecords ==
    \A p \in pingers :
        onFinishCalls[p] >= 1 =>
            LET replies == Replies(pingLog[p])
                k == recordsAtFinish[p]
            IN  /\ finishSnap[p].PacketsRecv >= k
                /\ Len(finishSnap[p].Rtts) >= k
                /\ k <= Len(replies)
                /\ SubSeq(finishSnap[p].Rtts, 1, k) = SubSeq(replies, 1, k)

\* Another goroutine finished the Pinger after one reply was recorded, Run still loops.
C9_Witness ==
    /\ onFinishCalls[1] = 1
    /\ recordsAtFinish[1] = 1
    /\ finishSnap[1].Rtts = <<4>>
    /\ finPc[1] = "none"

\* C9, normal end: the deferred Finish of Run hands over both replies.
C9_WitnessNormalEnd ==
    /\ runPc[1] = "returned"
    /\ \A c \in Callers : finPc[c] = "none"
    /\ recordsAtFinish[1] = 2
    /\ finishSnap[1].Rtts = <<1, 4>>

\* C10: OnSend is called once for every probe the loop has sent: between
\* iterations, at least once for each probe that got its reply (it was sent) and
\* at most once for each probe attempted.
C10_OnSendPerProbe ==
    \A p \in pingers :
        Between(p) =>
            /\ onSendCalls[p] >= Len(Replies(pingLog[p]))
            /\ onSendCalls[p] <= PacketsSent[p]

C18_PacketSeqWraps ==
    \A p \in pingers :
        runPc[p] = "handle" =>
            /\ packet[p].Seq = (started[p] - 1) % (SeqMask + 1)
            /\ packet[p].Seq = Marshal(icmpMessage(seq[p])).sequence

\* C12: in every snapshot PacketLoss is (PacketsSent - PacketsRecv) /
\* PacketsSent * 100 when PacketsSent > 0, and when PacketsSent = 0 it is a
\* number, not what a division by zero gives (NaN or an infinity).
C12_LossPercentage ==
    \A s \in Snapshots :
        s # NoSnap =>
            IF s.PacketsSent > 0
            THEN s.PacketLoss = [num |-> (s.PacketsSent - s.PacketsRecv) * 100,
                                 den |-> s.PacketsSent]
            ELSE s.PacketLoss \notin {[nan |-> TRUE], [inf |-> 1], [inf |-> -1]}

\* C13: a Statistics value is a copy: a later updateStatistics changes nothing
\* the holder of the value sees in it, and a write into its Rtts changes
\* neither the Pinger's rtts and statistics nor a Statistics value taken later.
C13_SnapshotIsACopy ==
    [][/\ (held' = held /\ PacketsRecv' # PacketsRecv) => HeldView' = HeldView
       /\ PacketsRecv' = PacketsRecv => Statistics(1)' = Statistics(1)]_vars

\* C14: after at least one updateStatistics with Rtts >= 0, minRtt and maxRtt
\* are the smallest and the largest Rtt recorded, avgRtt is the running mean
\* of Welford's integer step, and minRtt <= avgRtt <= maxRtt.
C14_MeanBetweenMinAndMax ==
    LET xs == Replies(pingLog[1])
    IN  PacketsRecv[1] >= 1 =>
            /\ minRtt[1] = SmallestOf(xs)
            /\ maxRtt[1] = LargestOf(xs)
            /\ avgRtt[1] = WelfordOf(xs).mean
            /\ minRtt[1] <= avgRtt[1]
            /\ avgRtt[1] <= maxRtt[1]

\* Two samples whose truncated mean is strictly between them.
C14_Witness ==
    /\ Replies(pingLog[1]) = <<4, 1>>
    /\ minRtt[1] = 1
    /\ avgRtt[1] = 3
    /\ maxRtt[1] = 4

\* C15: after any updateStatistics calls, stddevm2 is Welford's sum of squared
\* deltas, stdDevRtt is the root of stddevm2 / n and is within the rounding
\* tolerance of the population standard deviation of the two-pass formula,
\* large Rtts included; after one sample x, minRtt = maxRtt = avgRtt = x and
\* stdDevRtt = 0.
C15_StdDevMatchesTwoPass ==
    LET xs == Replies(pingLog[1])
        n == Len(xs)
        sd == stdDevRtt[1]
        tol == 1    \* rounding tolerance, in units of time.Duration
    IN  PacketsRecv[1] >= 1 =>
            /\ stddevm2[1] = WelfordOf(xs).m2
            /\ sd >= 0
            /\ sd = RootOf(stddevm2[1] \div n)
            /\ sd > tol =>
                   (sd - tol) * n * (sd - tol) * n <= ScaledVariance(xs)
            /\ ScaledVariance(xs) <= (sd + tol) * n * (sd + tol) * n
            /\ n = 1 => /\ minRtt[1] = xs[1] /\ maxRtt[1] = xs[1]
                        /\ avgRtt[1] = xs[1] /\ sd = 0

\* C16: ipv4Payload returns a buffer of fewer than 20 bytes as it is; of a
\* longer one it returns the bytes after the first 4 * (b[0] & 0x0f), which
\* for a header length of 5 are the bytes after the first 20.
C16_HeaderStripped ==
    out # NoSnap =>
        /\ Len(buf) < IPv4HeaderLen => out = [bytes |-> buf]
        /\ Len(buf) >= IPv4HeaderLen =>
               out = [bytes |-> Following(buf, 4 * (buf[1] % 16))]
        /\ (Len(buf) >= IPv4HeaderLen /\ buf[1] % 16 = 5) =>
               out = [bytes |-> Following(buf, 20)]

\* C20: for every buffer of at least 20 bytes and every header length 0..15,
\* ipv4Payload returns an end of the buffer, possibly empty, and does not
\* fail, also when 4 * header length is more than the length of the buffer.
C20_StripStaysInside ==
    (out # NoSnap /\ Len(buf) >= IPv4HeaderLen) =>
        /\ out # [panic |-> TRUE]
        /\ IsSuffix(out.bytes, buf)

\* C17: every read of a probe, the one after a discarded Echo Request
\* included, gets a buffer as large as the first, so that a complete Echo
\* Reply with a 20-byte header read then is taken for the reply.
C17_ReadAfterDiscard ==
    \A p \in pingers :
        runPc[p] = "read" =>
            /\ rb[p] = ReadBufLen
            /\ \A d \in Datagrams :
                   (d.ihl = 5 /\ ~d.request) => ReadPass(rb[p], d) = "reply"

\* C19: Pingers finish independently: once a call of Finish on a Pinger has
\* returned, that Pinger's finished flag is set and its OnFinish has been
\* called exactly once, whatever was done with the other Pingers of the process.
C19_EnginesFinishAlone ==
    \A p \in pingers :
        (\E t \in Tasks : finEngine[t] = p /\ finPc[t] = "returned") =>
            /\ finished[p]
            /\ onFinishCalls[p] = 1

====
